---- MODULE Spec2Model ----
(***************************************************************************)
(* A model of the Monte Carlo ray tracer: the vector algebra (linalg.rs),  *)
(* the shapes (shapes.rs), the scene parser (config.rs), the integrator    *)
(* and the sampling driver (trace.rs) and the two drivers of main.rs.      *)
(*                                                                         *)
(* Numbers.  f64 values are modelled exactly on a lattice:                 *)
(*   - a length is an integer number of half-epsilons (5e-5), so that the  *)
(*     program constant EPS = 1e-4 is the integer 2;                       *)
(*   - a direction is one of the six axis unit vectors, a position an      *)
(*     integer triple; spheres of the scenes have radius 1, so that every  *)
(*     square root the code takes on the lattice is exact;                 *)
(*   - an angle is an integer number of quarter turns, where sin and cos   *)
(*     are exact;                                                          *)
(*   - a colour channel is an integer number of 1/ColorDen;                *)
(*   - the IEEE values the code can produce on the lattice and that are    *)
(*     not lattice points (+inf as a distance, NaN as a position) are      *)
(*     carried as flags.                                                   *)
(***************************************************************************)
EXTENDS Integers, Sequences, FiniteSets, TLC

\* ------------------------------------------------------------------ bounds
MaxIter == 3

\* --------------------------------------------------------------- constants
EPS == 2

\* ------------------------------------------------------------- linalg.rs
Abs(a) == IF a < 0 THEN 0 - a ELSE a

\* the exact square root of a perfect square, its floor otherwise
Sqrt(a) == CHOOSE k \in 0..a : k * k <= a /\ (k + 1) * (k + 1) > a

IsSquare(a) == a >= 0 /\ Sqrt(a) * Sqrt(a) = a

Add(u, v) == <<u[1] + v[1], u[2] + v[2], u[3] + v[3]>>

Sub(u, v) == <<u[1] - v[1], u[2] - v[2], u[3] - v[3]>>

Mul(u, v) == <<u[1] * v[1], u[2] * v[2], u[3] * v[3]>>

dot(u, v) == (u[1] * v[1]) + (u[2] * v[2]) + (u[3] * v[3])

cross(u, v) ==
    << u[2] * v[3] - u[3] * v[2],
       u[3] * v[1] - u[1] * v[3],
       u[1] * v[2] - u[2] * v[1] >>

scale(u, k) == <<u[1] * k, u[2] * k, u[3] * k>>

\* u scaled by 1/k, for a k that divides every component
scale_inv(u, k) == <<u[1] \div k, u[2] \div k, u[3] \div k>>

\* rho of new_xyz: the magnitude (exact for the axis-parallel vectors)
size(u) == Sqrt(dot(u, u))

\* size().powi(2)
size_sq(u) == dot(u, u)

ZeroVec == <<0, 0, 0>>

\* normalize: self when rho = 1, a panic when rho = 0, else scale(1/rho)
normalize(u) ==
    IF size(u) = 1 THEN [panic |-> FALSE, v |-> u]
    ELSE IF size(u) = 0 THEN [panic |-> TRUE, v |-> u]
    ELSE [panic |-> FALSE, v |-> scale_inv(u, size(u))]

\* cos and sin of q quarter turns
Cos4(q) == LET r == q % 4 IN IF r = 0 THEN 1 ELSE IF r = 2 THEN 0 - 1 ELSE 0

Sin4(q) == LET r == q % 4 IN IF r = 1 THEN 1 ELSE IF r = 3 THEN 0 - 1 ELSE 0

\* theta = y.atan2(x) of new_xyz, in quarter turns (atan2(0, 0) = 0)
theta_of(u) ==
    IF u[2] = 0 THEN (IF u[1] < 0 THEN 2 ELSE 0)
    ELSE IF u[2] > 0 THEN 1 ELSE 0 - 1

\* phi = acos(z / rho) of new_xyz, in quarter turns (0 when rho = 0)
phi_of(u) ==
    IF size(u) = 0 THEN 0
    ELSE IF u[3] > 0 THEN 0 ELSE IF u[3] = 0 THEN 1 ELSE 2

new_sph(rho, theta, phi) ==
    << rho * Cos4(theta) * Sin4(phi),
       rho * Sin4(theta) * Sin4(phi),
       rho * Cos4(phi) >>

\* Vector3::turn: the cached spherical coordinates plus the deltas
turn(u, dtheta, dphi) == new_sph(size(u), theta_of(u) + dtheta, phi_of(u) + dphi)

\* ons: an orthonormal pair perpendicular to u (u an axis unit vector)
ons(u) ==
    LET v2 == IF Abs(u[1]) > Abs(u[2])
              THEN LET len == Sqrt(u[1] * u[1] + u[3] * u[3])
                   IN  <<(0 - u[3]) \div len, 0, u[1] \div len>>
              ELSE LET len == Sqrt(u[2] * u[2] + u[3] * u[3])
                   IN  <<0, u[3] \div len, (0 - u[2]) \div len>>
    IN  <<v2, cross(u, v2)>>

\* rand_hemi2 on the lattice: u1 = 0 and u2 a multiple of 1/4 (u1 < 1 always,
\* so the pole (0,0,1) is never drawn); q is 4 * u2
rand_hemi2(q) == <<Cos4(q), Sin4(q), 0>>

\* ------------------------------------------------------------- shapes.rs
\* A ray: nan marks a position with NaN components (pos is then unused);
\* via names the expression that built the value.
MkRay(pos, dir, nan, via) == [pos |-> pos, dir |-> dir, nan |-> nan, via |-> via]

\* Ray::new: the only constructor that normalizes
Ray_new(pos, dir, nan) == MkRay(pos, normalize(dir).v, nan, "new")

\* Ray::turn: a struct literal around Vector3::turn
Ray_turn(ray, dtheta, dphi) ==
    MkRay(ray.pos, turn(ray.dir, dtheta, dphi), ray.nan, "turn")

\* Ray::shift: a struct literal, the direction copied
Ray_shift(ray, d) == MkRay(Add(ray.pos, d), ray.dir, ray.nan, "shift")

\* Option<f64>: inf marks the distance +inf
None == [some |-> FALSE, t |-> 0, inf |-> FALSE]

Some(t) == [some |-> TRUE, t |-> t, inf |-> FALSE]

SomeInf == [some |-> TRUE, t |-> 0, inf |-> TRUE]

\* t1 < t2 on f64 distances
LessT(h1, h2) == ~h1.inf /\ (h2.inf \/ h1.t < h2.t)

\* Plane::intersect.  A zero denominator gives +inf, -inf or NaN by the sign
\* of the numerator; only +inf passes t > EPS.
Plane_intersect(self, ray) ==
    IF ray.nan THEN None
    ELSE LET num == dot(self.norm, Sub(self.point, ray.pos))
             den == dot(self.norm, ray.dir)
         IN  IF den = 0
             THEN (IF num > 0 THEN SomeInf ELSE None)
             ELSE LET t == (num * den) \div (den * den)
                  IN  IF t > EPS THEN Some(t) ELSE None

Plane_normal(self, pos) == self.norm

\* Sphere::intersect.  t1 and t2 are twice the roots; they are compared with
\* EPS before they are halved.
Sphere_intersect(self, ray) ==
    IF ray.nan THEN None
    ELSE LET b == 2 * dot(ray.dir, Sub(ray.pos, self.center))
             c == size_sq(Sub(ray.pos, self.center)) - self.radius * self.radius
             disc == b * b - 4 * c
         IN  IF disc < 0 THEN None
             ELSE LET sqrtdisc == Sqrt(disc)
                      t1 == (0 - b) + sqrtdisc
                      t2 == (0 - b) - sqrtdisc
                  IN  IF t2 > EPS THEN Some(t2 \div 2)
                      ELSE IF t1 > EPS THEN Some(t1 \div 2)
                      ELSE None

Sphere_normal(self, pos) == scale_inv(Sub(pos, self.center), self.radius)

\* dyn Shape dispatch
intersect(shape, ray) ==
    IF shape.kind = "sphere" THEN Sphere_intersect(shape, ray)
    ELSE Plane_intersect(shape, ray)

normal(shape, pos) ==
    IF shape.kind = "sphere" THEN Sphere_normal(shape, pos)
    ELSE Plane_normal(shape, pos)

MkSphere(center, radius) ==
    [kind |-> "sphere", center |-> center, radius |-> radius,
     point |-> ZeroVec, norm |-> ZeroVec]

MkPlane(point, norm) ==
    [kind |-> "plane", center |-> ZeroVec, radius |-> 0,
     point |-> point, norm |-> norm]

\* -------------------------------------------------------------- trace.rs
\* A radiance (a luminance, a returned colour, an accumulator) is a triple of
\* integers counting 1/ColorDen; an object's base colour is a triple of plain
\* channel values.  ColorDen absorbs the glass factor 1.15/0.9 = 23/18 of the
\* two bounces a path of the scenes can take through glass.
ColorDen == 18 * 18

BLACK == <<0, 0, 0>>

\* Color::from_string
Color_from_string(s) ==
    IF s = "black" THEN [ok |-> TRUE, c |-> <<0, 0, 0>>]
    ELSE IF s = "white" THEN [ok |-> TRUE, c |-> <<255, 255, 255>>]
    ELSE IF s = "red" THEN [ok |-> TRUE, c |-> <<255, 0, 0>>]
    ELSE IF s = "green" THEN [ok |-> TRUE, c |-> <<0, 255, 0>>]
    ELSE IF s = "blue" THEN [ok |-> TRUE, c |-> <<0, 0, 255>>]
    ELSE IF s = "yellow" THEN [ok |-> TRUE, c |-> <<255, 255, 0>>]
    ELSE [ok |-> FALSE, c |-> <<0, 0, 0>>]

\* Material: Mirror, or Translucent(clearness) with clearness the rational
\* clear[1] / clear[2]
Mirror == [kind |-> "Mirror", clear |-> <<0, 1>>]

Translucent(clear) == [kind |-> "Translucent", clear |-> clear]

MkObject(shape, color, lum, material) ==
    [shape |-> shape, color |-> color, lum |-> lum, material |-> material]

\* ------------------------------------------------------------- config.rs
\* A scene description is a sequence of lines (split("\n")), a line a
\* sequence of tokens (split(" ")); the empty line is the one empty token.

\* lengths per 1.0: EPS = 1e-4 is EPS lattice units
LenPerUnit == 10000 * EPS

\* str::parse::<f64> on the tokens of the scenes: <<n, d, 0>> is n/d and
\* <<n, d, 1>> is n/d quarter turns (the f64 nearest pi/2, taken as pi/2)
F64Table ==
    ("0" :> <<0, 1, 0>>) @@ ("1" :> <<1, 1, 0>>) @@ ("2" :> <<2, 1, 0>>)
    @@ ("3" :> <<3, 1, 0>>) @@ ("-1" :> <<0 - 1, 1, 0>>) @@ ("0.5" :> <<1, 2, 0>>)
    @@ ("5e-5" :> <<1, 20000, 0>>) @@ ("1e-4" :> <<2, 20000, 0>>)
    @@ ("15e-5" :> <<3, 20000, 0>>) @@ ("2e-4" :> <<4, 20000, 0>>)
    @@ ("25e-5" :> <<5, 20000, 0>>) @@ ("3e-4" :> <<6, 20000, 0>>)
    @@ ("-5e-5" :> <<0 - 1, 20000, 0>>) @@ ("-15e-5" :> <<0 - 3, 20000, 0>>)
    @@ ("1.5707963267948966" :> <<1, 1, 1>>)

parse_f64(tok) ==
    IF tok \in DOMAIN F64Table THEN [ok |-> TRUE, q |-> F64Table[tok]]
    ELSE [ok |-> FALSE, q |-> <<0, 1, 0>>]

\* str::parse::<u32> and ::<u16>: the unsigned decimal tokens only
parse_uint(tok) ==
    IF tok \in {"0", "1", "2", "3"} THEN [ok |-> TRUE, q |-> F64Table[tok]]
    ELSE [ok |-> FALSE, q |-> <<0, 1, 0>>]

\* an f64 as a count of lattice lengths, as a plain integer, as quarter turns
ToLen(q) == (q[1] * LenPerUnit) \div q[2]

ToInt(q) == q[1] \div q[2]

ToAngle(q) == IF q[3] = 1 THEN q[1] \div q[2] ELSE 0

OnLattice(q, what) ==
    IF what = "len" THEN (q[1] * LenPerUnit) % q[2] = 0 /\ q[3] = 0
    ELSE IF what = "int" THEN q[1] % q[2] = 0 /\ q[3] = 0
    ELSE q[3] = 1 \/ q[1] = 0

Ok(v) == [tag |-> "Ok", err |-> "", v |-> v]

Err(kind) == [tag |-> "Err", err |-> kind, v |-> <<>>]

Panic == [tag |-> "Panic", err |-> "", v |-> <<>>]

\* parse_nums::<T, N>: every token parses as T and there are exactly N,
\* else InvalidLine(line)
parse_nums(line, N, T) ==
    LET one(tok) == IF T = "f64" THEN parse_f64(tok) ELSE parse_uint(tok)
    IN  IF \E i \in 1..Len(line) : ~one(line[i]).ok THEN Err("InvalidLine")
        ELSE IF Len(line) # N THEN Err("InvalidLine")
        ELSE Ok([i \in 1..N |-> one(line[i]).q])

parse_vec(line) == parse_nums(line, 3, "f64")

\* parts.iter().map(|part| part.parse().unwrap()): a panic on a bad token
AllF64(parts) == \A i \in 1..Len(parts) : parse_f64(parts[i]).ok

Qs(parts) == [i \in 1..Len(parts) |-> parse_f64(parts[i]).q]

\* <Sphere as FromString>::from_string: a panic on a count other than 4
Sphere_from_string(parts) ==
    IF Len(parts) # 4 THEN Panic
    ELSE IF ~AllF64(parts) THEN Panic
    ELSE LET q == Qs(parts)
         IN  Ok(MkSphere(<<ToLen(q[1]), ToLen(q[2]), ToLen(q[3])>>, ToLen(q[4])))

\* <Plane as FromString>::from_string: a panic on a count other than 6, and
\* in normalize on a zero normal
Plane_from_string(parts) ==
    IF Len(parts) # 6 THEN Panic
    ELSE IF ~AllF64(parts) THEN Panic
    ELSE LET q == Qs(parts)
             n == normalize(<<ToInt(q[4]), ToInt(q[5]), ToInt(q[6])>>)
         IN  IF n.panic THEN Panic
             ELSE Ok(MkPlane(<<ToLen(q[1]), ToLen(q[2]), ToLen(q[3])>>, n.v))

\* the sequence s without its elements equal to x
Without(s, x) == SelectSeq(s, LAMBDA e : e # x)

Rest(s, k) == SubSeq(s, k + 1, Len(s))

\* parse_shape: the empty tokens dropped, the keyword looked up, then the
\* shape's own from_string
parse_shape(parts) ==
    LET toks == Without(parts, "")
    IN  IF Len(toks) = 0 THEN Err("InvalidShape")
        ELSE IF toks[1] = "sphere" THEN Sphere_from_string(Rest(toks, 1))
        ELSE IF toks[1] = "plane" THEN Plane_from_string(Rest(toks, 1))
        ELSE Err("InvalidShape")

\* parse_object: colour, luminance factor, material, shape
parse_object(raw, col_scale, lum_scale) ==
    LET color == Color_from_string(raw[1])
        lum_const == IF Len(raw) >= 2 THEN parse_f64(raw[2])
                     ELSE [ok |-> FALSE, q |-> <<0, 1, 0>>]
        kw == IF Len(raw) >= 3 THEN raw[3] ELSE ""
        clear == IF Len(raw) >= 4 THEN parse_f64(raw[4])
                 ELSE [ok |-> FALSE, q |-> <<0, 1, 0>>]
        material ==
            IF kw = "mirror" THEN Ok(Mirror)
            ELSE IF kw = "glass" THEN Ok(Translucent(<<1, 1>>))
            ELSE IF kw = "opaque" THEN Ok(Translucent(<<0, 1>>))
            ELSE IF kw = "translucent" /\ clear.ok
                 THEN Ok(Translucent(<<clear.q[1], clear.q[2]>>))
            ELSE Err("InvalidObject")
        used == IF kw = "translucent" THEN 4 ELSE 3
        \* color.scale(col_scale)
        col == scale(color.c, ToInt(col_scale))
        \* color.scale(lum_const).scale(lum_scale / col_scale)
        lum == scale_inv(
                 scale(col, ColorDen * lum_const.q[1] * lum_scale[1] * col_scale[2]),
                 lum_const.q[2] * lum_scale[2] * col_scale[1])
    IN  IF ~color.ok THEN Err("InvalidObject")
        ELSE IF ~lum_const.ok THEN Err("InvalidObject")
        ELSE IF material.tag # "Ok" THEN Err("InvalidObject")
        ELSE LET shape == parse_shape(Rest(raw, used))
             IN  IF shape.tag # "Ok" THEN shape
                 ELSE Ok(MkObject(shape.v, col, lum, material.v))

\* lines.map(parse_object).collect::<Result<Vec<_>, _>>(): the first line
\* that fails or panics ends the scan
RECURSIVE parse_objects(_, _, _, _)
parse_objects(lines, col_scale, lum_scale, acc) ==
    IF Len(lines) = 0 THEN Ok(acc)
    ELSE LET o == parse_object(lines[1], col_scale, lum_scale)
         IN  IF o.tag # "Ok" THEN o
             ELSE parse_objects(Rest(lines, 1), col_scale, lum_scale, Append(acc, o.v))

\* parse_pov: Ray::new panics in normalize on a zero direction
parse_pov(pos_line, dir_line) ==
    LET pos == parse_vec(pos_line)
        dir == parse_vec(dir_line)
    IN  IF pos.tag # "Ok" THEN pos
        ELSE IF dir.tag # "Ok" THEN dir
        ELSE LET d == <<ToInt(dir.v[1]), ToInt(dir.v[2]), ToInt(dir.v[3])>>
                 p == <<ToLen(pos.v[1]), ToLen(pos.v[2]), ToLen(pos.v[3])>>
             IN  IF normalize(d).panic THEN Panic ELSE Ok(Ray_new(p, d, FALSE))

IsComment(line) == line[1] = "//"

NoConfig ==
    [objects |-> <<>>, pov |-> MkRay(ZeroVec, ZeroVec, FALSE, "none"),
     width |-> 0, height |-> 0, fov |-> 0, max_depth |-> 0, num_tries |-> 0,
     max_variation |-> 0]

\* parse_config, line by line: each stage is handed the lines and what
\* the stages before it parsed
cfg_objects(lines, pov, dims, fov, dt, mv, scales) ==
    LET objects == parse_objects(Rest(lines, 7), scales[1], scales[2], <<>>)
    IN  IF objects.tag # "Ok" THEN objects
        ELSE Ok([objects |-> objects.v, pov |-> pov,
                 width |-> ToInt(dims[1]), height |-> ToInt(dims[2]),
                 fov |-> ToAngle(fov[1]),
                 max_depth |-> ToInt(dt[1]), num_tries |-> ToInt(dt[2]),
                 max_variation |-> ToAngle(mv[1])])

cfg_scales(lines, pov, dims, fov, dt, mv) ==
    IF Len(lines) < 7 THEN Err("NotEnoughLines")
    ELSE LET scales == parse_nums(lines[7], 2, "f64")
         IN  IF scales.tag # "Ok" THEN scales
             ELSE cfg_objects(lines, pov, dims, fov, dt, mv, scales.v)

cfg_variation(lines, pov, dims, fov, dt) ==
    IF Len(lines) < 6 THEN Err("NotEnoughLines")
    ELSE LET mv == parse_nums(lines[6], 1, "f64")
         IN  IF mv.tag # "Ok" THEN mv
             ELSE cfg_scales(lines, pov, dims, fov, dt, mv.v)

cfg_depth(lines, pov, dims, fov) ==
    IF Len(lines) < 5 THEN Err("NotEnoughLines")
    ELSE LET dt == parse_nums(lines[5], 2, "uint")
         IN  IF dt.tag # "Ok" THEN dt
             ELSE cfg_variation(lines, pov, dims, fov, dt.v)

cfg_fov(lines, pov, dims) ==
    IF Len(lines) < 4 THEN Err("NotEnoughLines")
    ELSE LET fov == parse_nums(lines[4], 1, "f64")
         IN  IF fov.tag # "Ok" THEN fov
             ELSE cfg_depth(lines, pov, dims, fov.v)

cfg_dims(lines, pov) ==
    IF Len(lines) < 3 THEN Err("NotEnoughLines")
    ELSE LET dims == parse_nums(lines[3], 2, "uint")
         IN  IF dims.tag # "Ok" THEN dims
             ELSE cfg_fov(lines, pov, dims.v)

\* parse_config: the blank lines and the // lines dropped; both lines of the
\* camera are taken before either is parsed
parse_config(raw) ==
    LET lines == SelectSeq(raw, LAMBDA l : l # <<"">> /\ ~IsComment(l))
    IN  IF Len(lines) < 2 THEN Err("NotEnoughLines")
        ELSE LET pov == parse_pov(lines[1], lines[2])
             IN  IF pov.tag # "Ok" THEN pov
                 ELSE cfg_dims(lines, pov.v)

\* -------------------------------------------------- trace.rs: get_color
\* a reduce that keeps the accumulator when the two t are equal
reduce_step_first(acc, idx, hit) ==
    IF ~acc.some THEN [some |-> TRUE, idx |-> idx, hit |-> hit]
    ELSE IF LessT(hit, acc.hit) THEN [some |-> TRUE, idx |-> idx, hit |-> hit]
    ELSE acc

\* the reduce of get_color over the hits found so far: acc is the pair kept
reduce_step(acc, idx, hit) ==
    IF ~acc.some THEN [some |-> TRUE, idx |-> idx, hit |-> hit]
    ELSE IF LessT(acc.hit, hit) THEN acc
    ELSE [some |-> TRUE, idx |-> idx, hit |-> hit]

\* objects.iter().filter_map(intersect).reduce(..), scanned from index i
RECURSIVE scan_from(_, _, _, _)
scan_from(objects, ray, i, acc) ==
    IF i > Len(objects) THEN acc
    ELSE LET h == intersect(objects[i].shape, ray)
         IN  scan_from(objects, ray, i + 1,
                       IF h.some THEN reduce_step(acc, i, h) ELSE acc)

best_hit(objects, ray) ==
    scan_from(objects, ray, 1, [some |-> FALSE, idx |-> 0, hit |-> None])

\* new_pos = ray.pos + ray.dir.scale(best_t): NaN components when t is +inf
\* (0 * inf) or the origin is NaN
new_pos_of(ray, hit) ==
    IF hit.inf \/ ray.nan THEN [nan |-> TRUE, pos |-> ZeroVec]
    ELSE [nan |-> FALSE, pos |-> Add(ray.pos, scale(ray.dir, hit.t))]

\* a path that ends one bounce early: depth == 1
is_terminal_at_one(depth) == depth = 1

\* if depth == 0: the end of the path
is_terminal(depth) == depth = 0

\* a recursive call that keeps its caller's depth
next_depth_same(depth) == depth

\* the depth of the recursive call
next_depth(depth) == depth - 1

\* Mirror: new_dir = ray.dir - n.scale(2.0 * cost), in a struct literal
mirror_ray(ray, np, n) ==
    LET cost == dot(ray.dir, n)
    IN  MkRay(np.pos, Sub(ray.dir, scale(n, 2 * cost)), np.nan, "literal")

\* (incoming * color).scale(1.0/255.0)
mirror_reflected(incoming, color) == scale_inv(Mul(incoming, color), 255)

\* Glass: refr = 1.5 as the rational 3/2
REFR == <<3, 2>>

\* r0 = ((1 - refr) / (1 + refr))^2
glass_r0 ==
    << (REFR[2] - REFR[1]) * (REFR[2] - REFR[1]),
       (REFR[2] + REFR[1]) * (REFR[2] + REFR[1]) >>

\* a glass branch that inverts refr inside the medium, not when entering
glass_orient_inverted(n, dir) ==
    IF dot(n, dir) > 0 THEN [n |-> scale(n, 0 - 1), refr |-> <<REFR[2], REFR[1]>>]
    ELSE [n |-> n, refr |-> REFR]

\* the pair (n, refr) of the glass branch: inside the medium when n.d > 0
glass_orient(n, dir) ==
    IF dot(n, dir) > 0 THEN [n |-> scale(n, 0 - 1), refr |-> REFR]
    ELSE [n |-> n, refr |-> <<REFR[2], REFR[1]>>]

Pow5(a) == a * a * a * a * a

\* cost1, cost2 and r_prob of the glass branch; cost2 and r_prob as rationals
glass_terms(n, dir) ==
    LET o == glass_orient(n, dir)
        cost1 == dot(o.n, dir) * (0 - 1)
        rn == o.refr[1]
        rd == o.refr[2]
    IN  [n |-> o.n, refr |-> o.refr, cost1 |-> cost1,
         cost2 |-> <<rd * rd - rn * rn * (1 - cost1 * cost1), rd * rd>>,
         r_prob |-> << glass_r0[1] + (glass_r0[2] - glass_r0[1]) * Pow5(1 - cost1),
                       glass_r0[2] >>]

\* cost2 > 0 and some rand in [0, 1) exceeds r_prob
can_refract(g) == g.cost2[1] > 0 /\ g.r_prob[1] < g.r_prob[2]

\* (ray.dir.scale(refr) + n.scale(refr * cost1 - cost2.sqrt())).normalize(),
\* computed on refr[2] times the vector
refract_dir(g, dir) ==
    normalize(Add(scale(dir, g.refr[1]),
                  scale(g.n, g.refr[1] * g.cost1 - Sqrt(g.cost2[1])))).v

\* (ray.dir + n.scale(cost1 * 2.0)).normalize()
reflect_dir(g, dir) == normalize(Add(dir, scale(g.n, g.cost1 * 2))).v

\* incoming.scale(1.15).scale(1.0 / 0.9)
glass_reflected(incoming) == scale_inv(scale(incoming, 23), 18)

\* Opaque: the normal turned against the ray
opaque_orient(n, cost) == IF cost < 0 THEN n ELSE scale(n, 0 - 1)

\* the sampled direction carried into world space by the basis of ons
opaque_dir(n, s) ==
    LET b == ons(n)
    IN  << dot(<<b[1][1], b[2][1], n[1]>>, s),
           dot(<<b[1][2], b[2][2], n[2]>>, s),
           dot(<<b[1][3], b[2][3], n[3]>>, s) >>

\* (incoming * color).scale(cost).scale(1.0/255.0).scale(1.0/0.9)
opaque_reflected(incoming, color, cost) ==
    scale_inv(scale(scale_inv(scale(Mul(incoming, color), cost), 255), 10), 9)

\* a result that leaves the luminance out
without_lum(reflected, lum) == reflected

\* reflected + best_obj.lum
with_lum(reflected, lum) == Add(reflected, lum)

\* a clearness c: some rand in [0, 1) is below it; some is not
can_glass(c) == c[1] > 0

can_opaque(c) == c[1] < c[2]

\* ------------------------------------------------------------- main.rs
\* a cast that wraps modulo 256 where `as` saturates
as_u8_wrapping(n, d) == (n \div d) % 256

\* `v as u8` on the f64 n/d: the fraction dropped, then saturated to 0..255
\* (Rust's float-to-integer `as` cast)
as_u8(n, d) ==
    IF n < 0 THEN 0
    ELSE IF n \div d > 255 THEN 255
    ELSE n \div d

\* Rgb([curr.x as u8, curr.y as u8, curr.z as u8]) of a radiance over div
Rgb(curr, div) ==
    <<as_u8(curr[1], ColorDen * div), as_u8(curr[2], ColorDen * div),
      as_u8(curr[3], ColorDen * div)>>

\* empty_result: one black radiance per pixel, row-major
empty_result(cfg) == [i \in 1..(cfg.width * cfg.height) |-> BLACK]

\* ---------------------------------------------------------------- scenes
\* The scene descriptions the input path can hold.  Lengths are written in
\* lattice units: 5e-5 is 1, 3e-4 is 6.
Header(dims, fov, depth_tries, mv) ==
    << <<"0", "0", "0">>, <<"0", "0", "1">>, dims, <<fov>>, depth_tries,
       <<mv>>, <<"1", "1">> >>

\* a sphere of radius 1 around (0, 0, 6): hit from the origin at t = 5
MirrorLit == <<"white", "1", "mirror", "sphere", "0", "0", "3e-4", "5e-5">>

MirrorDark == <<"white", "0", "mirror", "sphere", "0", "0", "3e-4", "5e-5">>

GlassBall == <<"white", "0", "glass", "sphere", "0", "0", "3e-4", "5e-5">>

FrostedBall ==
    <<"red", "1", "translucent", "0.5", "sphere", "0", "0", "3e-4", "5e-5">>

\* a sphere around (0, 0, 3): its near root from the origin is t = 2 = EPS
NearBall == <<"yellow", "1", "opaque", "sphere", "0", "0", "15e-5", "5e-5">>

\* an emissive plane behind the camera, facing it
BackLight == <<"white", "1", "opaque", "plane", "0", "0", "-15e-5", "0", "0", "1">>

\* a plane through (0, 0, 5): hit from the origin at t = 5, as MirrorLit is
TiePlane == <<"blue", "1", "mirror", "plane", "0", "0", "25e-5", "0", "0", "-1">>

\* a plane parallel to the z axis, above the camera
Ceiling == <<"green", "1", "mirror", "plane", "0", "5e-5", "0", "0", "1", "0">>

\* a plane across the y axis, which the turned camera rays meet
SideLight == <<"white", "1", "opaque", "plane", "0", "25e-5", "0", "0", "2", "0">>

Quarter == "1.5707963267948966"

GoodFiles ==
    { Header(<<"1", "1">>, "0", <<"2", "1">>, "0") \o <<MirrorLit>>,
      Header(<<"1", "1">>, "0", <<"2", "2">>, "0") \o <<MirrorDark, BackLight>>,
      Header(<<"1", "1">>, "0", <<"3", "1">>, "0")
          \o << <<"//">>, FrostedBall, <<"">>, BackLight >>,
      Header(<<"1", "1">>, "0", <<"3", "2">>, "0") \o <<GlassBall, BackLight>>,
      Header(<<"1", "1">>, "0", <<"0", "1">>, "0") \o <<MirrorLit>>,
      Header(<<"1", "1">>, "0", <<"1", "1">>, "0") \o <<MirrorLit, TiePlane>>,
      Header(<<"1", "1">>, "0", <<"2", "1">>, "0") \o <<TiePlane, MirrorLit>>,
      Header(<<"1", "1">>, "0", <<"2", "1">>, "0") \o <<Ceiling, NearBall>>,
      Header(<<"2", "2">>, Quarter, <<"2", "1">>, "0") \o <<SideLight, MirrorDark>>,
      Header(<<"1", "1">>, "0", <<"1", "2">>, Quarter) \o <<SideLight, MirrorLit>>,
      Header(<<"1", "1">>, "0", <<"1", "0">>, "0") \o <<MirrorLit>> }

BadFiles ==
    { \* a sphere with three tokens, a plane with five, a sphere with five
      Header(<<"1", "1">>, "0", <<"2", "1">>, "0")
          \o << <<"white", "1", "mirror", "sphere", "0", "0", "3e-4">> >>,
      Header(<<"1", "1">>, "0", <<"2", "1">>, "0")
          \o << MirrorLit, <<"white", "1", "opaque", "plane", "0", "0", "0", "0", "1">> >>,
      Header(<<"1", "1">>, "0", <<"2", "1">>, "0")
          \o << <<"white", "1", "glass", "sphere", "0", "0", "3e-4", "5e-5", "0">> >>,
      \* a sphere with a token that is no number
      Header(<<"1", "1">>, "0", <<"2", "1">>, "0")
          \o << <<"white", "1", "mirror", "sphere", "0", "0", "x", "5e-5">> >>,
      \* an unknown shape keyword, no shape at all
      Header(<<"1", "1">>, "0", <<"2", "1">>, "0")
          \o << <<"white", "1", "mirror", "cube", "0", "0", "3e-4", "5e-5">> >>,
      Header(<<"1", "1">>, "0", <<"2", "1">>, "0") \o << <<"white", "1", "mirror">> >>,
      \* an unknown material, an unknown colour
      Header(<<"1", "1">>, "0", <<"2", "1">>, "0")
          \o << <<"white", "1", "chrome", "sphere", "0", "0", "3e-4", "5e-5">> >>,
      Header(<<"1", "1">>, "0", <<"2", "1">>, "0")
          \o << <<"pink", "1", "mirror", "sphere", "0", "0", "3e-4", "5e-5">> >>,
      \* malformed numeric header lines
      Header(<<"1", "x">>, "0", <<"2", "1">>, "0") \o <<MirrorLit>>,
      Header(<<"1", "1">>, "0", <<"2", "-1">>, "0") \o <<MirrorLit>>,
      Header(<<"1", "1", "1">>, "0", <<"2", "1">>, "0") \o <<MirrorLit>>,
      \* too few lines
      << <<"0", "0", "0">>, <<"0", "0", "1">>, <<"1", "1">> >>,
      \* a zero camera direction
      << <<"0", "0", "0">>, <<"0", "0", "0">>, <<"1", "1">>, <<"0">>,
         <<"2", "1">>, <<"0">>, <<"1", "1">> >> }

RawPool == GoodFiles \cup BadFiles

\* ---------------------------------------------------------------- state
VARIABLES
    file,     \* the text at the input path
    mode,     \* "once" or "real_time" (cli_args.real_time)
    pc,       \* where main is
    raw,      \* build_real_time: the text the current config was parsed from
    lraw,     \* get_config: its local raw
    parsed,   \* the last result of parse_config, with the text it was given
    config,   \* the current Config
    result,   \* build_real_time: the accumulator
    it,       \* build_real_time: the loop counter
    mk,       \* make_image: pixel p, k samples done, the sums, the raster
    stack,    \* get_color: the frames of the recursion, the caller first
    ret,      \* get_color: the value the last return handed back
    gc,       \* per top-level get_color: calls made, objects scanned, draws
    img,      \* the image last saved, and what it was converted from
    passes,   \* the rasters make_image returned for the current generation
    probe     \* a shape, a ray and the result of intersect on them

vars ==
    <<file, mode, pc, raw, lraw, parsed, config, result, it, mk, stack, ret,
      gc, img, passes, probe>>

\* the cap on the calls one top-level get_color may make
MaxCalls == 8

NoRet ==
    [has |-> FALSE, val |-> BLACK, hit |-> FALSE, idx |-> 0, branch |-> "none",
     incoming |-> BLACK, below |-> FALSE, cost |-> 0, depth |-> 0,
     ray |-> MkRay(ZeroVec, ZeroVec, FALSE, "none"), scans |-> 0, draws |-> 0]

NoImg == [saved |-> FALSE, px |-> <<>>, from |-> <<>>, div |-> 0]

NoParse == [text |-> <<>>, res |-> [tag |-> "none", err |-> "", v |-> <<>>]]

NoProbe == [shape |-> MkSphere(ZeroVec, 0), ray |-> MkRay(ZeroVec, ZeroVec, FALSE, "none"),
            out |-> None, done |-> FALSE]

NewMk == [p |-> 0, k |-> 0, rgb |-> BLACK, new |-> <<>>, samp |-> <<>>, cur |-> <<>>]

\* a frame of get_color; scans0 and draws0 are the counts at its entry
Frame(ray, depth, scans0, draws0) ==
    [ray |-> ray, depth |-> depth, st |-> "call", idx |-> 0, branch |-> "none",
     cost |-> 0, refr |-> <<0, 1>>, inside |-> FALSE, best_t |-> None,
     scans0 |-> scans0, draws0 |-> draws0]

Top == stack[Len(stack)]

Front(s) == SubSeq(s, 1, Len(s) - 1)

Init ==
    /\ file \in RawPool
    /\ mode \in {"once", "real_time"}
    /\ pc = "start"
    /\ raw = <<>>
    /\ lraw = <<>>
    /\ parsed = NoParse
    /\ config = NoConfig
    /\ result = <<>>
    /\ it = 0
    /\ mk = NewMk
    /\ stack = <<>>
    /\ ret = NoRet
    /\ gc = [calls |-> 0, scans |-> 0, draws |-> 0]
    /\ img = NoImg
    /\ passes = <<>>
    /\ probe = NoProbe

\* ------------------------------------------------- make_image (trace.rs)
\* the camera ray of pixel p (row-major, y from the top)
pixel_ray(cfg, p) ==
    LET x == p % cfg.width
        y == p \div cfg.width
        yf == cfg.height - y - 1
        \* dtheta = -((2 xf - widthf) / widthf) * fovx
        dtheta == ((cfg.width - 2 * x) * cfg.fov) \div cfg.width
        \* dphi = -((2 yf - heightf) / heightf) * fovx * (heightf / widthf)
        dphi == ((cfg.height - 2 * yf) * cfg.fov) \div cfg.width
    IN  Ray_turn(cfg.pov, dtheta, dphi)

\* (2.0 * rng.gen::<f64>() - 1.0) * max_variation on the lattice: the draws
\* 0 and 1/2 (the draw is below 1, so +max_variation is never reached)
Jitter(cfg) == {0 - cfg.max_variation, 0}

\* one pass of the for loop starts: the jittered ray goes to get_color
BeginSample ==
    /\ pc = "render"
    /\ mk.p < config.width * config.height
    /\ mk.k < config.num_tries
    /\ \E j1 \in Jitter(config), j2 \in Jitter(config) :
          stack' = <<Frame(Ray_turn(pixel_ray(config, mk.p), j1, j2),
                           config.max_depth, 0, 0)>>
    /\ gc' = [calls |-> 1, scans |-> 0, draws |-> 0]
    /\ ret' = NoRet
    /\ pc' = "trace"
    /\ UNCHANGED <<file, mode, raw, lraw, parsed, config, result, it, mk, img,
                   passes, probe>>

\* get_color returned to make_image: r += color.x, g += color.y, b += color.z
EndSample ==
    /\ pc = "trace"
    /\ stack = <<>>
    /\ ret.has
    /\ mk' = [mk EXCEPT !.k = @ + 1, !.rgb = Add(@, ret.val),
                        !.cur = Append(@, ret.val)]
    /\ pc' = "render"
    /\ UNCHANGED <<file, mode, raw, lraw, parsed, config, result, it, stack, ret,
                   gc, img, passes, probe>>

\* the loop is over: the pixel is Vector3::new(r, g, b)
EndPixel ==
    /\ pc = "render"
    /\ mk.p < config.width * config.height
    /\ mk.k = config.num_tries
    /\ mk' = [mk EXCEPT !.p = @ + 1, !.k = 0, !.rgb = BLACK,
                        !.new = Append(@, mk.rgb),
                        !.samp = Append(@, mk.cur), !.cur = <<>>]
    /\ UNCHANGED <<file, mode, pc, raw, lraw, parsed, config, result, it, stack,
                   ret, gc, img, passes, probe>>

\* --------------------------------------------------- get_color (trace.rs)
\* what a return hands back: the value, and of the invocation that returns
\* its frame, what it received from below, and the objects it and its
\* callees scanned and the random values they drew (scans, draws)
Returning(val, hit, f, scans, draws) ==
    [has |-> TRUE, val |-> val, hit |-> hit, idx |-> f.idx, branch |-> f.branch,
     incoming |-> ret.val, below |-> ret.hit, cost |-> f.cost, depth |-> f.depth,
     ray |-> f.ray, scans |-> scans - f.scans0, draws |-> draws - f.draws0]

\* if depth == 0 { Color::BLACK }
GcDepthZero ==
    /\ pc = "trace" /\ stack # <<>> /\ Top.st = "call"
    /\ is_terminal(Top.depth)
    /\ ret' = Returning(BLACK, FALSE, Top, gc.scans, gc.draws)
    /\ stack' = Front(stack)
    /\ UNCHANGED <<file, mode, pc, raw, lraw, parsed, config, result, it, mk, gc,
                   img, passes, probe>>

\* the scan finds no hit: None => Color::BLACK
GcMiss(b) ==
    /\ ~b.some
    /\ gc' = [gc EXCEPT !.scans = @ + Len(config.objects)]
    /\ ret' = Returning(BLACK, FALSE, Top, gc'.scans, gc'.draws)
    /\ stack' = Front(stack)
    /\ UNCHANGED <<file, mode, pc, raw, lraw, parsed, config, result, it, mk,
                   img, passes, probe>>

\* the caller's frame once it waits for get_color(objects, new_ray, depth - 1)
Waiting(f, b, branch, cost, refr, inside) ==
    [f EXCEPT !.st = "wait", !.idx = b.idx, !.branch = branch, !.cost = cost,
              !.refr = refr, !.inside = inside, !.best_t = b.hit]

Recurse(f, new_ray, scans, draws) ==
    /\ gc.calls < MaxCalls
    /\ gc' = [calls |-> gc.calls + 1, scans |-> gc.scans + scans,
              draws |-> gc.draws + draws]
    /\ stack' = Append(Append(Front(stack), f),
                       Frame(new_ray, next_depth(f.depth), gc'.scans, gc'.draws))
    /\ UNCHANGED <<file, mode, pc, raw, lraw, parsed, config, result, it, mk, ret,
                   img, passes, probe>>

\* Material::Mirror
GcMirror(b) ==
    /\ b.some
    /\ config.objects[b.idx].material.kind = "Mirror"
    /\ LET np == new_pos_of(Top.ray, b.hit)
           n == normal(config.objects[b.idx].shape, np.pos)
       IN  Recurse(Waiting(Top, b, "mirror", dot(Top.ray.dir, n), <<0, 1>>, FALSE),
                   mirror_ray(Top.ray, np, n), Len(config.objects), 0)

\* Material::Translucent, rand < clearness: the refracted or the reflected ray
GcGlass(b) ==
    /\ b.some
    /\ config.objects[b.idx].material.kind = "Translucent"
    /\ can_glass(config.objects[b.idx].material.clear)
    /\ LET np == new_pos_of(Top.ray, b.hit)
           n == normal(config.objects[b.idx].shape, np.pos)
           g == glass_terms(n, Top.ray.dir)
           f == Waiting(Top, b, "glass", g.cost1, g.refr, dot(n, Top.ray.dir) > 0)
           \* the second draw is made only when cost2 > 0
           draws == IF g.cost2[1] > 0 THEN 2 ELSE 1
       IN  \/ /\ can_refract(g)
              /\ Recurse(f, Ray_new(np.pos, refract_dir(g, Top.ray.dir), np.nan),
                         Len(config.objects), draws)
           \/ Recurse(f, Ray_new(np.pos, reflect_dir(g, Top.ray.dir), np.nan),
                      Len(config.objects), draws)

\* Material::Translucent, rand >= clearness: a direction of the hemisphere
GcOpaque(b) ==
    /\ b.some
    /\ config.objects[b.idx].material.kind = "Translucent"
    /\ can_opaque(config.objects[b.idx].material.clear)
    /\ LET np == new_pos_of(Top.ray, b.hit)
           n0 == normal(config.objects[b.idx].shape, np.pos)
           n == opaque_orient(n0, dot(Top.ray.dir, n0))
       IN  \E q \in 0..3 :
             LET new_dir == opaque_dir(n, rand_hemi2(q))
             IN  Recurse(Waiting(Top, b, "opaque", dot(new_dir, n), <<0, 1>>, FALSE),
                         Ray_new(np.pos, new_dir, np.nan), Len(config.objects), 3)

\* depth > 0: the scan of the objects, then the match on what it kept
GcCall ==
    /\ pc = "trace" /\ stack # <<>> /\ Top.st = "call"
    /\ ~is_terminal(Top.depth)
    /\ \E b \in {best_hit(config.objects, Top.ray)} :
          \/ GcMiss(b)
          \/ GcMirror(b)
          \/ GcGlass(b)
          \/ GcOpaque(b)

\* the recursive call returned: reflected + best_obj.lum
reflected_of(f, incoming, obj) ==
    IF f.branch = "mirror" THEN mirror_reflected(incoming, obj.color)
    ELSE IF f.branch = "glass" THEN glass_reflected(incoming)
    ELSE opaque_reflected(incoming, obj.color, f.cost)

GcReturn ==
    /\ pc = "trace" /\ stack # <<>> /\ Top.st = "wait"
    /\ ret.has
    /\ LET obj == config.objects[Top.idx]
       IN  ret' = Returning(with_lum(reflected_of(Top, ret.val, obj), obj.lum),
                            TRUE, Top, gc.scans, gc.draws)
    /\ stack' = Front(stack)
    /\ UNCHANGED <<file, mode, pc, raw, lraw, parsed, config, result, it, mk, gc,
                   img, passes, probe>>

\* ------------------------------------------------------ build_once (main.rs)
\* parse_config_file: fs::read_to_string(path), then parse_config
StartOnce ==
    /\ pc = "start" /\ mode = "once"
    /\ lraw' = file
    /\ pc' = "parse"
    /\ UNCHANGED <<file, mode, raw, parsed, config, result, it, mk, stack, ret,
                   gc, img, passes, probe>>

\* make_image returned: every pixel is cast to bytes and the image is saved
SaveOnce ==
    /\ pc = "render" /\ mode = "once"
    /\ mk.p = config.width * config.height
    /\ img' = [saved |-> TRUE, from |-> mk.new, div |-> 1,
               px |-> [i \in 1..Len(mk.new) |-> Rgb(mk.new[i], 1)]]
    /\ passes' = Append(passes, mk.new)
    /\ pc' = "done"
    /\ UNCHANGED <<file, mode, raw, lraw, parsed, config, result, it, mk, stack,
                   ret, gc, probe>>

\* ------------------------------------------------- build_real_time (main.rs)
\* get_config(input, None): load_raw, and no cached text to compare with
StartRealTime ==
    /\ pc = "start" /\ mode = "real_time"
    /\ lraw' = file
    /\ pc' = "parse"
    /\ UNCHANGED <<file, mode, raw, parsed, config, result, it, mk, stack, ret,
                   gc, img, passes, probe>>

\* parse_config on the text read.  build_once: Ok goes on to make_image, an
\* Err ends main, a panic aborts it.  get_config: Ok returns Some((raw,
\* config)) and the caller starts the next iteration on an empty
\* accumulator; Err shows the message and enters the polling loop.
ParseText ==
    /\ pc = "parse"
    /\ parsed' = [text |-> lraw, res |-> parse_config(lraw)]
    /\ mk' = NewMk
    /\ IF mode = "once"
       THEN /\ config' = IF parsed'.res.tag = "Ok" THEN parsed'.res.v ELSE config
            /\ pc' = IF parsed'.res.tag = "Ok" THEN "render"
                     ELSE IF parsed'.res.tag = "Panic" THEN "panic" ELSE "error"
            /\ UNCHANGED <<raw, result, passes, it>>
       ELSE IF parsed'.res.tag = "Ok"
            THEN /\ raw' = lraw
                 /\ config' = parsed'.res.v
                 /\ result' = empty_result(config')
                 /\ passes' = <<>>
                 /\ it' = it + 1
                 /\ pc' = "render"
            ELSE /\ pc' = IF parsed'.res.tag = "Panic" THEN "panic" ELSE "err_wait"
                 /\ UNCHANGED <<raw, config, result, passes, it>>
    /\ UNCHANGED <<file, mode, lraw, stack, ret, gc, img, probe>>

\* result += new; the image is result.scale(1 / it) cast to bytes, and saved
SaveRealTime ==
    /\ pc = "render" /\ mode = "real_time"
    /\ mk.p = config.width * config.height
    /\ result' = [i \in 1..Len(result) |-> Add(result[i], mk.new[i])]
    /\ img' = [saved |-> TRUE, from |-> result', div |-> it,
               px |-> [i \in 1..Len(result') |-> Rgb(result'[i], it)]]
    /\ passes' = Append(passes, mk.new)
    /\ pc' = "poll"
    /\ UNCHANGED <<file, mode, raw, lraw, parsed, config, it, mk, stack, ret, gc,
                   probe>>

\* get_config(input, Some(&raw)): None when the text is the cached one, and
\* the loop goes round
PollSame ==
    /\ pc = "poll"
    /\ it < MaxIter
    /\ file = raw
    /\ it' = it + 1
    /\ mk' = NewMk
    /\ pc' = "render"
    /\ UNCHANGED <<file, mode, raw, lraw, parsed, config, result, stack, ret, gc,
                   img, passes, probe>>

\* get_config(input, Some(&raw)): another text, which is parsed
PollChanged ==
    /\ pc = "poll"
    /\ it < MaxIter
    /\ file # raw
    /\ lraw' = file
    /\ pc' = "parse"
    /\ UNCHANGED <<file, mode, raw, parsed, config, result, it, mk, stack, ret,
                   gc, img, passes, probe>>

\* the polling loop of get_config: a text other than the one that failed
\* is parsed in its turn
ErrPoll ==
    /\ pc = "err_wait"
    /\ file # lraw
    /\ lraw' = file
    /\ pc' = "parse"
    /\ UNCHANGED <<file, mode, raw, parsed, config, result, it, mk, stack, ret,
                   gc, img, passes, probe>>

\* the environment: the scene description is edited while the driver sleeps
\* or is between two frames
EditFile ==
    /\ mode = "real_time"
    /\ pc \in {"poll", "err_wait"}
    /\ it < MaxIter
    /\ file' \in RawPool \ {file}
    /\ UNCHANGED <<mode, pc, raw, lraw, parsed, config, result, it, mk, stack,
                   ret, gc, img, passes, probe>>

Next ==
    \/ StartOnce \/ StartRealTime \/ ParseText
    \/ SaveOnce \/ SaveRealTime \/ PollSame \/ PollChanged \/ ErrPoll
    \/ EditFile
    \/ BeginSample \/ EndSample \/ EndPixel
    \/ GcDepthZero \/ GcCall \/ GcReturn

Spec == Init /\ [][Next]_vars

\* every number the run met was on the lattice: the model computed exactly
Exact ==
    /\ \A i \in 1..Len(stack) :
          /\ dot(stack[i].ray.dir, stack[i].ray.dir) = 1
          /\ \A j \in 1..Len(config.objects) :
                LET o == config.objects[j].shape
                    w == Sub(stack[i].ray.pos, o.center)
                    b == 2 * dot(stack[i].ray.dir, w)
                IN  o.kind = "sphere" =>
                      LET disc == b * b - 4 * (size_sq(w) - o.radius * o.radius)
                      IN  disc < 0 \/ IsSquare(disc)

\* ------------------------------------------- the shapes on their own
\* Shape::intersect as a function of its inputs: spheres and planes around
\* the origin, rays from two origins along the six axes.  The spheres are
\* those a ray meets at lattice points (a negative or a square discriminant).
MaxCoord == 4

MaxRadius == 2

Axis ==
    { <<1, 0, 0>>, <<0 - 1, 0, 0>>, <<0, 1, 0>>, <<0, 0 - 1, 0>>, <<0, 0, 1>>,
      <<0, 0, 0 - 1>> }

ProbeRays == { MkRay(p, d, FALSE, "new") : p \in {ZeroVec, <<0, 0, 1>>}, d \in Axis }

ProbePoints ==
    { <<x, y, z>> : x \in (0 - 1)..1, y \in (0 - 1)..1, z \in (0 - MaxCoord)..MaxCoord }

\* b and c of t^2 + b t + c = 0, in the words of the comment of intersect
sphere_b(self, ray) == 2 * dot(ray.dir, Sub(ray.pos, self.center))

sphere_c(self, ray) ==
    dot(Sub(ray.pos, self.center), Sub(ray.pos, self.center))
      - self.radius * self.radius

ExactSphere(self, ray) ==
    LET disc == sphere_b(self, ray) * sphere_b(self, ray) - 4 * sphere_c(self, ray)
    IN  disc < 0 \/ IsSquare(disc)

InitShape ==
    /\ file = <<>> /\ mode = "probe" /\ pc = "probe"
    /\ raw = <<>> /\ lraw = <<>> /\ parsed = NoParse /\ config = NoConfig
    /\ result = <<>> /\ it = 0 /\ mk = NewMk /\ stack = <<>> /\ ret = NoRet
    /\ gc = [calls |-> 0, scans |-> 0, draws |-> 0]
    /\ img = NoImg /\ passes = <<>>
    /\ \E ray \in ProbeRays :
          \/ \E c \in ProbePoints, r \in 1..MaxRadius :
                /\ ExactSphere(MkSphere(c, r), ray)
                /\ probe = [shape |-> MkSphere(c, r), ray |-> ray, out |-> None,
                            done |-> FALSE]
          \/ \E q \in ProbePoints, n \in Axis :
                probe = [shape |-> MkPlane(q, n), ray |-> ray, out |-> None,
                         done |-> FALSE]

ProbeSphere ==
    /\ pc = "probe" /\ ~probe.done /\ probe.shape.kind = "sphere"
    /\ probe' = [probe EXCEPT !.out = Sphere_intersect(probe.shape, probe.ray),
                              !.done = TRUE]
    /\ UNCHANGED <<file, mode, pc, raw, lraw, parsed, config, result, it, mk,
                   stack, ret, gc, img, passes>>

ProbePlane ==
    /\ pc = "probe" /\ ~probe.done /\ probe.shape.kind = "plane"
    /\ probe' = [probe EXCEPT !.out = Plane_intersect(probe.shape, probe.ray),
                              !.done = TRUE]
    /\ UNCHANGED <<file, mode, pc, raw, lraw, parsed, config, result, it, mk,
                   stack, ret, gc, img, passes>>

NextShape == ProbeSphere \/ ProbePlane

SpecShape == InitShape /\ [][NextShape]_vars

\* ----------------------------------------------------------- the claims
RECURSIVE SumColors(_)
SumColors(cs) ==
    IF cs = <<>> THEN <<0, 0, 0>> ELSE Add(cs[1], SumColors(Rest(cs, 1)))

\* C1: every pixel of the raster of make_image, which build_once casts to
\* bytes, is the sum of the num_tries colours get_color returned for that
\* pixel divided by num_tries (pixel * num_tries = sum of the samples).
C1_PixelIsAverageOfSamples ==
    /\ \A i \in 1..Len(mk.new) :
          scale(mk.new[i], config.num_tries) = SumColors(mk.samp[i])
    /\ (pc = "done") =>
          \A i \in 1..Len(img.from) :
             scale(img.from[i], config.num_tries) = SumColors(mk.samp[i])

\* the channel-wise sum, pixel by pixel, of the rasters of the passes
PassSum(i) == SumColors([k \in 1..Len(passes) |-> passes[k][i]])

\* C2: in real-time mode every image written is the sum of the passes
\* rendered for the current scene generation divided by the number of those
\* passes: the accumulator and the divisor both start again when the
\* description changes.
C2_ImageIsAverageOfGeneration ==
    (pc = "poll") =>
       /\ img.div = Len(passes)
       /\ \A i \in 1..Len(img.from) : img.from[i] = PassSum(i)

\* C3: get_color called with depth = 0 returns black, for every ray and every
\* scene, having scanned no object and drawn no random value.
C3_DepthZeroIsBlack ==
    (pc = "trace" /\ ret.has /\ ret.depth = 0) =>
       /\ ret.val = <<0, 0, 0>>
       /\ ~ret.hit
       /\ ret.scans = 0
       /\ ret.draws = 0

\* a call at depth 0 returned although an object of the scene lies on its ray
C3_Witness ==
    /\ pc = "trace" /\ ret.has /\ ret.depth = 0
    /\ config.objects # <<>>
    /\ best_hit(config.objects, ret.ray).some

\* the scattered contribution of each material branch, from what came back
Scattered(r, obj) ==
    IF r.branch = "mirror"
    THEN [k \in 1..3 |-> (r.incoming[k] * obj.color[k]) \div 255]
    ELSE IF r.branch = "glass"
    THEN [k \in 1..3 |-> (r.incoming[k] * 23) \div 18]
    ELSE [k \in 1..3 |-> (r.incoming[k] * obj.color[k] * r.cost * 10) \div (255 * 9)]

\* C4: whenever get_color hits an object at depth >= 1 its result is the
\* scattered contribution plus the object's luminance, in every material
\* branch; a Mirror whose reflected ray hits nothing returns exactly its
\* luminance.
C4_HitAddsLuminance ==
    (pc = "trace" /\ ret.has /\ ret.hit) =>
       LET obj == config.objects[ret.idx]
           sc == Scattered(ret, obj)
       IN  /\ ret.depth >= 1
           /\ ret.val = <<sc[1] + obj.lum[1], sc[2] + obj.lum[2], sc[3] + obj.lum[3]>>
           /\ (ret.branch = "mirror" /\ ~ret.below) => ret.val = obj.lum

\* a scene of one emissive Mirror, traced at depth 2: the reflected ray met
\* nothing and the trace returned the luminance
C4_Witness ==
    /\ pc = "trace" /\ stack = <<>> /\ ret.has /\ ret.hit
    /\ ret.depth = 2 /\ ret.branch = "mirror" /\ ~ret.below
    /\ Len(config.objects) = 1
    /\ config.objects[1].lum # <<0, 0, 0>>
    /\ ret.val = config.objects[1].lum

\* the real roots of t^2 + b t + c = 0 (lattice points, for the probes)
SphereRoots(self, ray) ==
    { t \in (0 - 4 * MaxCoord - 4)..(4 * MaxCoord + 4) :
         t * t + sphere_b(self, ray) * t + sphere_c(self, ray) = 0 }

MinOf(S) == CHOOSE t \in S : \A u \in S : t <= u

\* C5: Sphere.intersect returns the smallest real root of t^2 + b t + c = 0
\* that strictly exceeds EPS, and no hit when no root exceeds EPS.
C5_SmallestRootAboveEps ==
    (probe.done /\ probe.shape.kind = "sphere") =>
       LET above == { t \in SphereRoots(probe.shape, probe.ray) : t > EPS }
       IN  probe.out = IF above = {} THEN None ELSE Some(MinOf(above))

\* the tokens of an object line after its material
ShapeTokens(line) ==
    Without(Rest(line, IF line[3] = "translucent" THEN 4 ELSE 3), "")

\* a shape keyword followed by the wrong number of tokens
WrongCount(line) ==
    /\ Len(line) >= 4
    /\ LET toks == ShapeTokens(line)
       IN  /\ Len(toks) >= 1
           /\ \/ toks[1] = "sphere" /\ Len(toks) - 1 # 4
              \/ toks[1] = "plane" /\ Len(toks) - 1 # 6

RemoveAt(seq, i) == SubSeq(seq, 1, i - 1) \o SubSeq(seq, i + 1, Len(seq))

\* C6: parse_config on a text whose only fault is an object line with the
\* wrong number of tokens for its shape returns ConfigError::InvalidShape
\* (it does not panic).
C6_WrongCountIsInvalidShape ==
    \A i \in 1..Len(parsed.text) :
       (/\ WrongCount(parsed.text[i])
        /\ parse_config(RemoveAt(parsed.text, i)).tag = "Ok")
       => (parsed.res.tag = "Err" /\ parsed.res.err = "InvalidShape")

\* C7: every ray that reaches Shape.intersect was built by an expression
\* that normalizes its direction (and so has a unit direction).
C7_EveryRayBuiltNormalized ==
    \A i \in 1..Len(stack) :
       /\ stack[i].ray.via = "new"
       /\ dot(stack[i].ray.dir, stack[i].ray.dir) = 1

\* the integer part of n/d wrapped into a byte
Wrapped(n, d) == (n \div d) % 256

\* C8 as stated: a channel value above 255 is cast to the wrapped value, not
\* to 255.
C8_OverflowWraps ==
    img.saved =>
       \A i \in 1..Len(img.from) : \A k \in 1..3 :
          (img.from[i][k] > 255 * ColorDen * img.div)
          => img.px[i][k] = Wrapped(img.from[i][k], ColorDen * img.div)

\* C8 amended: a channel value above 255 is cast to the saturated value 255;
\* a value within 0..255 is cast to its integer part.
C8_OverflowSaturates ==
    img.saved =>
       \A i \in 1..Len(img.from) : \A k \in 1..3 :
          /\ (img.from[i][k] > 255 * ColorDen * img.div) => img.px[i][k] = 255
          /\ (img.from[i][k] <= 255 * ColorDen * img.div)
             => img.px[i][k] = img.from[i][k] \div (ColorDen * img.div)

\* an image was saved with a channel whose value was above 255
C8_Witness ==
    /\ img.saved
    /\ \E i \in 1..Len(img.from) : \E k \in 1..3 :
          img.from[i][k] > 255 * ColorDen * img.div

HitOf(f, j) == intersect(config.objects[j].shape, f.ray)

\* C9 as stated: the object kept has the smallest t of those the ray meets,
\* and of several at that t it is the first of the scan.
C9_FirstOfEqualWins ==
    \A i \in 1..Len(stack) :
       (stack[i].st = "wait") =>
          /\ HitOf(stack[i], stack[i].idx).some
          /\ \A j \in 1..Len(config.objects) :
                HitOf(stack[i], j).some =>
                   /\ ~LessT(HitOf(stack[i], j), HitOf(stack[i], stack[i].idx))
                   /\ (HitOf(stack[i], j) = HitOf(stack[i], stack[i].idx))
                      => stack[i].idx <= j

\* C9 amended: the object kept has the smallest t of those the ray meets,
\* and of several at that t it is the last of the scan.
C9_LastOfEqualWins ==
    \A i \in 1..Len(stack) :
       (stack[i].st = "wait") =>
          /\ HitOf(stack[i], stack[i].idx).some
          /\ \A j \in 1..Len(config.objects) :
                HitOf(stack[i], j).some =>
                   /\ ~LessT(HitOf(stack[i], j), HitOf(stack[i], stack[i].idx))
                   /\ (HitOf(stack[i], j) = HitOf(stack[i], stack[i].idx))
                      => j <= stack[i].idx

\* a ray met two objects at the same smallest t
C9_Witness ==
    \E i \in 1..Len(stack) :
       /\ stack[i].st = "wait"
       /\ \E j \in 1..Len(config.objects) :
             /\ j # stack[i].idx
             /\ HitOf(stack[i], j) = HitOf(stack[i], stack[i].idx)

\* C10 as stated: a top-level get_color(objects, ray, max_depth) with
\* max_depth >= 1 is over within max_depth calls of get_color.
C10_WithinMaxDepthCalls ==
    (pc = "trace" /\ config.max_depth >= 1) => gc.calls <= config.max_depth

\* C10 amended: a top-level get_color is over within max_depth + 1 calls:
\* every invocation waits on at most one call, made with its own depth less
\* one, and no call has a depth below 0.
C10_WithinMaxDepthPlusOneCalls ==
    (pc = "trace") =>
       /\ gc.calls <= config.max_depth + 1
       /\ \A i \in 1..Len(stack) :
             /\ stack[i].depth = config.max_depth - (i - 1)
             /\ stack[i].depth >= 0
             /\ (i < Len(stack)) => stack[i].st = "wait"
       /\ (stack = <<>>) => ret.has

\* a trace ended after exactly max_depth + 1 calls, with max_depth >= 2
C10_Witness ==
    /\ pc = "trace" /\ stack = <<>> /\ ret.has
    /\ config.max_depth >= 2
    /\ gc.calls = config.max_depth + 1

\* the surface normal at the hit a waiting frame recorded
NormalAt(f) ==
    normal(config.objects[f.idx].shape, new_pos_of(f.ray, f.best_t).pos)

GlassFrames == { i \in 1..Len(stack) : stack[i].st = "wait" /\ stack[i].branch = "glass" }

\* C11 as stated: in the glass branch, inside the medium (n.d > 0) the index
\* used is 1/1.5; entering (n.d <= 0) the index used is 1.5.
C11_InsideUsesInverseIndex ==
    \A i \in GlassFrames :
       LET nd == dot(NormalAt(stack[i]), stack[i].ray.dir)
       IN  IF nd > 0 THEN stack[i].refr = <<2, 3>> ELSE stack[i].refr = <<3, 2>>

\* C11 amended: in the glass branch, inside the medium (n.d > 0) the normal
\* is flipped (cost1 = n.d) and the index used is 1.5; entering (n.d <= 0)
\* the normal is kept (cost1 = -(n.d)) and the index used is 1/1.5.
C11_EnteringUsesInverseIndex ==
    \A i \in GlassFrames :
       LET nd == dot(NormalAt(stack[i]), stack[i].ray.dir)
       IN  IF nd > 0
           THEN stack[i].inside /\ stack[i].cost = nd /\ stack[i].refr = <<3, 2>>
           ELSE ~stack[i].inside /\ stack[i].cost = 0 - nd /\ stack[i].refr = <<2, 3>>

\* a ray entered a glass object and its refracted ray met the surface from
\* inside: both orientations are on the stack
C11_Witness ==
    \E i \in GlassFrames : \E j \in GlassFrames :
       /\ i < j
       /\ dot(NormalAt(stack[i]), stack[i].ray.dir) < 0
       /\ dot(NormalAt(stack[j]), stack[j].ray.dir) > 0

\* C12: Plane.intersect returns no hit when the ray is parallel to the plane
\* (n.d = 0) or the plane is behind the ray, otherwise t = n.(p0 - o) / n.d
\* only if t > EPS; the distance returned is never infinite.
C12_ParallelPlaneIsNoHit ==
    (probe.done /\ probe.shape.kind = "plane") =>
       LET num == dot(probe.shape.norm, Sub(probe.shape.point, probe.ray.pos))
           den == dot(probe.shape.norm, probe.ray.dir)
       IN  /\ ~probe.out.inf
           /\ (den = 0) => probe.out = None
           /\ (den # 0 /\ num * den <= 0) => probe.out = None
           /\ (den # 0 /\ probe.out.some) =>
                 probe.out.t > EPS /\ probe.out.t * den = num

\* C13: in real-time mode, once a frame has been rendered, a description
\* that fails to parse because an object line has the wrong field count for
\* its shape does not end the driver: after the failed parse it is in its
\* polling loop, from which a description that parses starts a new
\* generation.
C13_ParseFailureKeepsPolling ==
    (/\ mode = "real_time" /\ img.saved
     /\ pc # "parse" /\ parsed.text = lraw /\ parsed.res.tag # "Ok"
     /\ \E i \in 1..Len(parsed.text) : WrongCount(parsed.text[i]))
    => pc = "err_wait"

====
